---- MODULE Spec2Model ----
(***************************************************************************)
(* Model of osm_fieldwork/OdkCentralAsync.py: the asynchronous ODK Central *)
(* client (OdkCentral session lifecycle, OdkProject and OdkEntity          *)
(* operations).  One caller drives one client object; the two bulk         *)
(* operations run one task per item and are joined by asyncio.gather.      *)
(***************************************************************************)
EXTENDS Integers, Sequences, FiniteSets, TLC

VARIABLES
    scope,      \* position of the caller w.r.t. `async with`: outside / authenticating / inside
    clients,    \* every aiohttp.ClientSession this object created: "open" or "closed"; self.session is the last
    headers,    \* default headers of self.session
    sent,       \* the requests the most recent call issued on self.session, in order
    call,       \* the most recent call and its arguments
    ret,        \* its outcome: pending, returned value or raised exception
    answer,     \* what the transport answered to the request of the most recent single-request call
    forms,      \* self.forms
    tasks       \* the tasks of the most recent bulk call, in launch order

vars == <<scope, clients, headers, sent, call, ret, answer, forms, tasks>>

(***************************************************************************)
(* Bounds                                                                  *)
(***************************************************************************)
MaxScopes == 2      \* scoped acquisitions per client object
MaxItems == 2       \* items handed to a bulk operation
MaxSubs == 2        \* submissions the server returns for one form
MaxVersion == 2     \* largest newVersion passed to updateEntity

(***************************************************************************)
(* Python values: tagged so that None, "", 0, {} and [] stay distinct      *)
(***************************************************************************)
NoneVal == [t |-> "none", v |-> 0]
PyBool(b) == [t |-> "bool", v |-> b]
PyInt(n) == [t |-> "int", v |-> n]
PyStr(s) == [t |-> "str", v |-> s]
PyList(s) == [t |-> "list", v |-> s]
PyDict(f) == [t |-> "dict", v |-> f]
NoItems == [k \in {} |-> NoneVal]
EmptyDict == PyDict(NoItems)
EmptyList == PyList(<<>>)

\* Python truth value testing, as used by `if newVersion:` and `not label and not data`
Truthy(x) ==
    CASE x.t = "none" -> FALSE
      [] x.t = "bool" -> x.v
      [] x.t = "int" -> x.v # 0
      [] x.t = "str" -> x.v # ""
      [] x.t = "list" -> Len(x.v) # 0
      [] x.t = "dict" -> DOMAIN x.v # {}

\* `key in d` for a dict d
HasKey(d, key) == key \in DOMAIN d.v

\* d.get(key, default)
DictGet(d, key, default) == IF HasKey(d, key) THEN d.v[key] ELSE default

(***************************************************************************)
(* Outcomes of a call and of a request                                     *)
(***************************************************************************)
Return(val) == [kind |-> "return", val |-> val, exc |-> "none"]
Raise(exc) == [kind |-> "raise", val |-> NoneVal, exc |-> exc]
Pending == [kind |-> "pending", val |-> NoneVal, exc |-> "none"]
NoRet == [kind |-> "none", val |-> NoneVal, exc |-> "none"]

\* What the transport does with one request: a 2xx response with a JSON body,
\* an aiohttp.ClientError (non-2xx status under raise_for_status=True, or a
\* connection failure), or an exception that is not an aiohttp.ClientError.
Ok(json) == [kind |-> "ok", json |-> json]
Failures == {[kind |-> "ClientError", json |-> NoneVal], [kind |-> "OtherException", json |-> NoneVal]}
Responses(jsons) == {Ok(j) : j \in jsons} \cup Failures
NoAnswer == [kind |-> "none", json |-> NoneVal]

(***************************************************************************)
(* Requests                                                                *)
(***************************************************************************)
ProjectIds == {52}
DatasetNames == {"buildings"}
Forms == {"A", "B"}
Tokens == {"t1", "t2"}
\* values uuid4() may draw, and the uuid of an entity that already exists
UUIDs == {"u1", "u2"}
EntityUuids == {"u1"}
NoQuery == <<>>
NoBody == NoneVal

\* headers.update(more)
HeadersUpdate(h, more) == [n \in DOMAIN h \cup DOMAIN more |-> IF n \in DOMAIN more THEN more[n] ELSE h[n]]

\* A request issued on the session: aiohttp sends the session's default
\* headers merged with the headers given to the call.
Request(method, url, query, hdrs, extra, body) ==
    [method |-> method, url |-> url, query |-> query, headers |-> HeadersUpdate(hdrs, extra), body |-> body]

NoHeaders == [n \in {} |-> <<>>]
SessionHeaders == [accept |-> <<"odkcentral">>]

NoCall == [op |-> "none", metadata |-> FALSE, xform |-> "", filters |-> NoneVal, label |-> NoneVal,
           data |-> NoneVal, newVersion |-> NoneVal, uuid |-> "", items |-> <<>>]

(***************************************************************************)
(* Session lifecycle                                                       *)
(***************************************************************************)
\* authenticate: the response of the POST to `sessions` decides
authenticate_NoAttach(hdrs, resp) ==
    IF resp.kind = "ok"
    THEN IF HasKey(resp.json, "token")
         THEN [headers |-> hdrs, ret |-> Return(NoneVal)]
         ELSE [headers |-> hdrs, ret |-> Raise("KeyError")]
    ELSE [headers |-> hdrs, ret |-> Raise(resp.kind)]

authenticate(hdrs, resp) ==
    IF resp.kind = "ok"
    THEN IF HasKey(resp.json, "token")
         THEN [headers |-> HeadersUpdate(hdrs, [Authorization |-> <<"Bearer", resp.json.v.token>>]),
               ret |-> Return(NoneVal)]
         ELSE [headers |-> hdrs, ret |-> Raise("KeyError")]
    ELSE [headers |-> hdrs, ret |-> Raise(resp.kind)]

AuthRequest(hdrs) == Request("POST", <<"sessions">>, NoQuery, hdrs, NoHeaders, PyDict([email |-> "user", password |-> "passwd"]))

\* __aenter__ up to the suspension inside authenticate
AEnter ==
    /\ scope = "outside"
    /\ Len(clients) < MaxScopes
    /\ clients' = Append(clients, "open")
    /\ headers' = SessionHeaders
    /\ scope' = "authenticating"
    /\ sent' = <<AuthRequest(SessionHeaders)>>
    /\ call' = [NoCall EXCEPT !.op = "authenticate"]
    /\ ret' = Pending
    /\ answer' = NoAnswer
    /\ tasks' = <<>>
    /\ UNCHANGED forms

AuthJsons == {PyDict([token |-> t]) : t \in Tokens} \cup {PyDict([message |-> "denied"])}

\* the rest of authenticate and of __aenter__; when authenticate raises,
\* __aenter__ raises and `async with` never calls __aexit__
AuthenticateDone ==
    /\ scope = "authenticating"
    /\ \E resp \in Responses(AuthJsons) :
         LET r == authenticate(headers, resp) IN
           /\ headers' = r.headers
           /\ ret' = r.ret
           /\ answer' = resp
           /\ scope' = IF r.ret.kind = "return" THEN "inside" ELSE "outside"
    /\ UNCHANGED <<clients, sent, call, forms, tasks>>

\* session.close() on self.session
CloseSession(cs) == [cs EXCEPT ![Len(cs)] = "closed"]

\* __aexit__(exc_type, exc_value, traceback)
aexit(cs, how) == IF Len(cs) > 0 THEN CloseSession(cs) ELSE cs

AExit ==
    /\ scope = "inside"
    /\ ret.kind # "pending"
    /\ \E how \in {"normal", "exception"} : clients' = aexit(clients, how)
    /\ scope' = "outside"
    /\ UNCHANGED <<headers, sent, call, ret, answer, forms, tasks>>

(***************************************************************************)
(* Single-request operations.  Each operator takes the session's headers,  *)
(* the arguments and the transport's answer, and gives the requests issued *)
(* and the outcome of the call.                                            *)
(***************************************************************************)
Guarded_Propagate(resp, value, empty) ==
    CASE resp.kind = "ok" -> Return(value)
      [] OTHER -> Raise(resp.kind)

\* try: ... return <json>  except aiohttp.ClientError: return <empty>
Guarded(resp, value, empty) ==
    CASE resp.kind = "ok" -> Return(value)
      [] resp.kind = "ClientError" -> Return(empty)
      [] OTHER -> Raise(resp.kind)

listForms(hdrs, projectId, metadata, resp) ==
    [reqs |-> <<Request("GET", <<"projects", projectId, "forms">>, NoQuery, hdrs,
                        IF metadata THEN [XExtendedMetadata |-> <<"true">>] ELSE NoHeaders, NoBody)>>,
     ret |-> Guarded(resp, resp.json, EmptyList)]

listSubmissions(hdrs, projectId, xform, filters, resp) ==
    [reqs |-> <<Request("GET", <<"projects", projectId, "forms", xform, ".svc/Submissions">>, filters, hdrs, NoHeaders, NoBody)>>,
     ret |-> Guarded(resp, resp.json, EmptyDict)]

listDatasets(hdrs, projectId, resp) ==
    [reqs |-> <<Request("GET", <<"projects", projectId, "datasets", "">>, NoQuery, hdrs, NoHeaders, NoBody)>>,
     ret |-> Guarded(resp, resp.json, EmptyList)]

listEntities(hdrs, projectId, datasetName, resp) ==
    [reqs |-> <<Request("GET", <<"projects", projectId, "datasets", datasetName, "entities">>, NoQuery, hdrs, NoHeaders, NoBody)>>,
     ret |-> Guarded(resp, resp.json, EmptyList)]

\* all(key in data for key in ["geometry"])
RequiredFieldsPresent(data) == HasKey(data, "geometry")

createEntity_CheckAfterPost(hdrs, projectId, datasetName, label, data, uuid, resp) ==
    [reqs |-> <<Request("POST", <<"projects", projectId, "datasets", datasetName, "entities">>, NoQuery, hdrs, NoHeaders,
                        PyDict([uuid |-> uuid, label |-> label, data |-> data]))>>,
     ret |-> IF ~RequiredFieldsPresent(data) THEN Raise("ValueError") ELSE Guarded(resp, resp.json, EmptyDict)]

createEntity(hdrs, projectId, datasetName, label, data, uuid, resp) ==
    IF ~RequiredFieldsPresent(data)
    THEN [reqs |-> <<>>, ret |-> Raise("ValueError")]
    ELSE [reqs |-> <<Request("POST", <<"projects", projectId, "datasets", datasetName, "entities">>, NoQuery, hdrs, NoHeaders,
                             PyDict([uuid |-> uuid, label |-> label, data |-> data]))>>,
          ret |-> Guarded(resp, resp.json, EmptyDict)]

\* json_data of updateEntity: only the fields that were passed
UpdatePayload(label, data) ==
    PyDict([k \in (IF Truthy(data) THEN {"data"} ELSE {}) \cup (IF Truthy(label) THEN {"label"} ELSE {})
              |-> IF k = "data" THEN data ELSE label])

\* the query string appended to the PATCH url
UpdateQuery(newVersion) ==
    IF Truthy(newVersion) THEN <<"baseVersion", newVersion.v - 1>> ELSE <<"force", "true">>

updateEntity(hdrs, projectId, datasetName, entityUuid, label, data, newVersion, resp) ==
    IF ~Truthy(label) /\ ~Truthy(data)
    THEN [reqs |-> <<>>, ret |-> Raise("ValueError")]
    ELSE [reqs |-> <<Request("PATCH", <<"projects", projectId, "datasets", datasetName, "entities", entityUuid>>,
                             UpdateQuery(newVersion), hdrs, NoHeaders, UpdatePayload(label, data))>>,
          ret |-> Guarded(resp, resp.json, EmptyDict)]

\* (await response.json()).get("success", False)
DeleteSuccess_Present(json) == PyBool(HasKey(json, "success"))

DeleteSuccess(json) == DictGet(json, "success", PyBool(FALSE))

deleteEntity(hdrs, projectId, datasetName, entityUuid, resp) ==
    [reqs |-> <<Request("DELETE", <<"projects", projectId, "datasets", datasetName, "entities", entityUuid>>, NoQuery, hdrs, NoHeaders, NoBody)>>,
     ret |-> Guarded(resp, IF resp.kind = "ok" THEN DeleteSuccess(resp.json) ELSE NoneVal, PyBool(FALSE))]

getEntityData(hdrs, projectId, datasetName, resp) ==
    [reqs |-> <<Request("GET", <<"projects", projectId, "datasets", datasetName, ".svc/Entities">>, NoQuery, hdrs, NoHeaders, NoBody)>>,
     ret |-> Guarded(resp, IF resp.kind = "ok" THEN DictGet(resp.json, "value", EmptyDict) ELSE NoneVal, EmptyDict)]

(***************************************************************************)
(* What the server may answer                                              *)
(***************************************************************************)
\* the submissions of one form, in the order the server returns them:
\* oldest first or newest first
SubmissionLists(xform) ==
    {[i \in 1..n |-> <<xform, i>>] : n \in 0..MaxSubs} \cup {[i \in 1..n |-> <<xform, n + 1 - i>>] : n \in 0..MaxSubs}

Envelope(list) == PyDict([value |-> PyList(list)])
SubmissionJsons(xform) == {Envelope(s) : s \in SubmissionLists(xform)}
FormJsons == {EmptyList, PyList(<<"A", "B">>)}
DatasetJsons == {EmptyList, PyList(<<"buildings">>)}
EntityListJsons == {EmptyList, PyList(<<"u1">>)}
EntityJson(uuid) == PyDict([uuid |-> uuid, currentVersion |-> 1])
DeleteJsons == {PyDict([success |-> PyBool(TRUE)]), PyDict([success |-> PyBool(FALSE)]), PyDict([message |-> PyStr("gone")])}
EntityDataJsons == {Envelope(<<>>), Envelope(<<"u1">>), PyDict([message |-> PyStr("none")])}

(***************************************************************************)
(* Arguments the caller may pass                                           *)
(***************************************************************************)
FilterArgs == {NoneVal, PyDict([top |-> 1])}
CreateLabels == {"a", "b"}
CreateDatas == {EmptyDict, PyDict([geometry |-> "g"]), PyDict([name |-> "n"])}
UpdateLabels == {NoneVal, PyStr(""), PyStr("a")}
UpdateDatas == {NoneVal, EmptyDict, PyDict([name |-> "n"])}
UpdateVersions == {NoneVal} \cup {PyInt(n) : n \in 0..MaxVersion}

(***************************************************************************)
(* The caller runs one single-request operation                            *)
(***************************************************************************)
Idle == scope = "inside" /\ ret.kind # "pending"

Complete(c, r, resp) ==
    /\ sent' = r.reqs
    /\ call' = c
    /\ ret' = r.ret
    /\ answer' = IF Len(r.reqs) = 0 THEN NoAnswer ELSE resp
    /\ tasks' = <<>>
    /\ UNCHANGED <<scope, clients, headers>>

ListForms ==
    /\ Idle
    /\ \E p \in ProjectIds, metadata \in BOOLEAN, resp \in Responses(FormJsons) :
         /\ Complete([NoCall EXCEPT !.op = "listForms", !.metadata = metadata], listForms(headers, p, metadata, resp), resp)
         /\ forms' = IF resp.kind = "ok" THEN resp.json ELSE forms

ListSubmissions ==
    /\ Idle
    /\ \E p \in ProjectIds, xform \in Forms, filters \in FilterArgs :
         \E resp \in Responses(SubmissionJsons(xform)) :
           Complete([NoCall EXCEPT !.op = "listSubmissions", !.xform = xform, !.filters = filters],
                    listSubmissions(headers, p, xform, filters, resp), resp)
    /\ UNCHANGED forms

ListDatasets ==
    /\ Idle
    /\ \E p \in ProjectIds, resp \in Responses(DatasetJsons) :
         Complete([NoCall EXCEPT !.op = "listDatasets"], listDatasets(headers, p, resp), resp)
    /\ UNCHANGED forms

ListEntities ==
    /\ Idle
    /\ \E p \in ProjectIds, d \in DatasetNames, resp \in Responses(EntityListJsons) :
         Complete([NoCall EXCEPT !.op = "listEntities"], listEntities(headers, p, d, resp), resp)
    /\ UNCHANGED forms

CreateEntity ==
    /\ Idle
    /\ \E p \in ProjectIds, d \in DatasetNames, label \in CreateLabels, data \in CreateDatas, uuid \in UUIDs :
         \E resp \in Responses({EntityJson(uuid)}) :
           Complete([NoCall EXCEPT !.op = "createEntity", !.label = PyStr(label), !.data = data, !.uuid = uuid],
                    createEntity(headers, p, d, PyStr(label), data, uuid, resp), resp)
    /\ UNCHANGED forms

UpdateEntity ==
    /\ Idle
    /\ \E p \in ProjectIds, d \in DatasetNames, uuid \in EntityUuids, label \in UpdateLabels, data \in UpdateDatas,
          newVersion \in UpdateVersions :
         \E resp \in Responses({EntityJson(uuid)}) :
           Complete([NoCall EXCEPT !.op = "updateEntity", !.label = label, !.data = data, !.newVersion = newVersion, !.uuid = uuid],
                    updateEntity(headers, p, d, uuid, label, data, newVersion, resp), resp)
    /\ UNCHANGED forms

DeleteEntity ==
    /\ Idle
    /\ \E p \in ProjectIds, d \in DatasetNames, uuid \in EntityUuids, resp \in Responses(DeleteJsons) :
         Complete([NoCall EXCEPT !.op = "deleteEntity", !.uuid = uuid], deleteEntity(headers, p, d, uuid, resp), resp)
    /\ UNCHANGED forms

GetEntityData ==
    /\ Idle
    /\ \E p \in ProjectIds, d \in DatasetNames, resp \in Responses(EntityDataJsons) :
         Complete([NoCall EXCEPT !.op = "getEntityData"], getEntityData(headers, p, d, resp), resp)
    /\ UNCHANGED forms

(***************************************************************************)
(* Bulk operations: one task per item, joined by                           *)
(* asyncio.gather with return_exceptions=True                              *)
(***************************************************************************)
\* a task suspended in its request, and a task that has settled; doneAt is
\* its rank in the order of completion
Waiting == [st |-> "waiting", resp |-> Ok(NoneVal), out |-> Pending, doneAt |-> 0]
Settled(ts, resp, out) ==
    [st |-> "done", resp |-> resp, out |-> out, doneAt |-> Cardinality({i \in DOMAIN ts : ts[i].st = "done"}) + 1]

\* the await on gather resumes once every awaitable has settled
GatherReady_FirstException(ts) ==
    \/ \A i \in DOMAIN ts : ts[i].st = "done"
    \/ \E i \in DOMAIN ts : ts[i].st = "done" /\ ts[i].out.kind = "raise"

GatherReady(ts) == \A i \in DOMAIN ts : ts[i].st = "done"

\* the list gather returns: results (or exceptions) in the order of the awaitables
GatherResults_CompletionOrder(ts) ==
    LET done == {i \in DOMAIN ts : ts[i].st = "done"}
        rest == {i \in DOMAIN ts : ts[i].st # "done"}
        At(k) == IF k <= Cardinality(done)
                 THEN CHOOSE i \in done : ts[i].doneAt = k
                 ELSE CHOOSE i \in rest : Cardinality({j \in rest : j < i}) = k - Cardinality(done) - 1
    IN [k \in DOMAIN ts |-> ts[At(k)].out]

GatherResults(ts) == [i \in DOMAIN ts |-> ts[i].out]

RECURSIVE ExtendSubmissions(_, _, _)
\* the loop over `submissions`, from index i on, with submission_data = acc
ExtendSubmissions(results, i, acc) ==
    IF i > Len(results) THEN Return(PyList(acc))
    ELSE IF results[i].kind = "raise" THEN ExtendSubmissions(results, i + 1, acc)
    ELSE IF results[i].val.t # "dict" THEN Raise("TypeError")
    ELSE IF ~HasKey(results[i].val, "value") THEN Raise("KeyError")
    ELSE ExtendSubmissions(results, i + 1, acc \o results[i].val.v.value.v)

\* getAllProjectSubmissions after the gather
getAllProjectSubmissions(results) == ExtendSubmissions(results, 1, <<>>)

RECURSIVE AppendEntities(_, _, _)
\* the loop over `entities`, from index i on, with entity_data = acc
AppendEntities(results, i, acc) ==
    IF i > Len(results) THEN Return(PyList(acc))
    ELSE IF results[i].kind = "raise" THEN AppendEntities(results, i + 1, acc)
    ELSE AppendEntities(results, i + 1, Append(acc, results[i].val))

\* createEntities after the gather
createEntities(results) == AppendEntities(results, 1, <<>>)

RECURSIVE Flatten(_)
Flatten(ss) == IF Len(ss) = 0 THEN <<>> ELSE Head(ss) \o Flatten(Tail(ss))

\* xforms: any list of forms of at most MaxItems entries
XformArgs == UNION {[1..n -> Forms] : n \in 0..MaxItems}

\* labelDataDict.items(): the i-th key is the i-th label (the keys of a dict
\* are distinct), each with its data; the third component is the value the
\* task's uuid4() draws, distinct from task to task
LabelNames == <<"a", "b", "c", "d">>
UuidNames == <<"u1", "u2", "u3", "u4">>
LabelDataArgs ==
    {[i \in DOMAIN ds |-> <<LabelNames[i], ds[i], UuidNames[i]>>] :
        ds \in UNION {[1..n -> CreateDatas] : n \in 0..MaxItems}}

\* getAllProjectSubmissions up to the await: every task runs to the
\* suspension inside its GET
GetAllProjectSubmissionsStart ==
    /\ Idle
    /\ \E p \in ProjectIds, xforms \in XformArgs, filters \in FilterArgs :
         LET reqs == Flatten([i \in DOMAIN xforms |-> listSubmissions(headers, p, xforms[i], filters, Ok(NoneVal)).reqs]) IN
           /\ sent' = reqs
           /\ call' = [NoCall EXCEPT !.op = "getAllProjectSubmissions", !.filters = filters, !.items = xforms]
           /\ tasks' = [i \in DOMAIN xforms |-> Waiting]
    /\ ret' = Pending
    /\ answer' = NoAnswer
    /\ UNCHANGED <<scope, clients, headers, forms>>

\* one listSubmissions task gets its answer and finishes
SubmissionTaskSettle ==
    /\ call.op = "getAllProjectSubmissions"
    /\ \E i \in DOMAIN tasks :
         /\ tasks[i].st = "waiting"
         /\ \E p \in ProjectIds, resp \in Responses(SubmissionJsons(call.items[i])) :
              tasks' = [tasks EXCEPT ![i] =
                          Settled(tasks, resp, listSubmissions(headers, p, call.items[i], call.filters, resp).ret)]
    /\ UNCHANGED <<scope, clients, headers, sent, call, ret, answer, forms>>

GetAllProjectSubmissionsFinish ==
    /\ call.op = "getAllProjectSubmissions"
    /\ ret.kind = "pending"
    /\ GatherReady(tasks)
    /\ ret' = getAllProjectSubmissions(GatherResults(tasks))
    /\ UNCHANGED <<scope, clients, headers, sent, call, answer, forms, tasks>>

RECURSIVE StartEntityTasks(_, _, _, _, _)
\* the createEntity tasks run one after the other up to their first
\* suspension: a task whose data fails the check settles at once
StartEntityTasks(hdrs, p, d, items, ts) ==
    IF Len(ts) = Len(items) THEN ts
    ELSE LET it == items[Len(ts) + 1]
             r == createEntity(hdrs, p, d, PyStr(it[1]), it[2], it[3], Ok(NoneVal))
         IN StartEntityTasks(hdrs, p, d, items,
                Append(ts, IF Len(r.reqs) = 0 THEN Settled(ts, Ok(NoneVal), r.ret) ELSE Waiting))

CreateEntitiesStart ==
    /\ Idle
    /\ \E p \in ProjectIds, d \in DatasetNames, items \in LabelDataArgs :
         LET reqs == Flatten([i \in DOMAIN items |-> createEntity(headers, p, d, PyStr(items[i][1]), items[i][2], items[i][3], Ok(NoneVal)).reqs]) IN
           /\ sent' = reqs
           /\ call' = [NoCall EXCEPT !.op = "createEntities", !.items = items]
           /\ tasks' = StartEntityTasks(headers, p, d, items, <<>>)
    /\ ret' = Pending
    /\ answer' = NoAnswer
    /\ UNCHANGED <<scope, clients, headers, forms>>

\* one createEntity task gets its answer and finishes
EntityTaskSettle ==
    /\ call.op = "createEntities"
    /\ \E i \in DOMAIN tasks :
         /\ tasks[i].st = "waiting"
         /\ \E p \in ProjectIds, d \in DatasetNames, resp \in Responses({EntityJson(call.items[i][3])}) :
              tasks' = [tasks EXCEPT ![i] =
                          Settled(tasks, resp, createEntity(headers, p, d, PyStr(call.items[i][1]), call.items[i][2],
                                                            call.items[i][3], resp).ret)]
    /\ UNCHANGED <<scope, clients, headers, sent, call, ret, answer, forms>>

CreateEntitiesFinish ==
    /\ call.op = "createEntities"
    /\ ret.kind = "pending"
    /\ GatherReady(tasks)
    /\ ret' = createEntities(GatherResults(tasks))
    /\ UNCHANGED <<scope, clients, headers, sent, call, answer, forms, tasks>>

(***************************************************************************)
(* Spec: one client object from construction on, its scoped acquisitions   *)
(* and the single-request operations                                       *)
(***************************************************************************)
Init ==
    /\ scope = "outside"
    /\ clients = <<>>
    /\ headers = NoHeaders
    /\ sent = <<>>
    /\ call = NoCall
    /\ ret = NoRet
    /\ answer = NoAnswer
    /\ forms = NoneVal
    /\ tasks = <<>>

Next ==
    \/ AEnter
    \/ AuthenticateDone
    \/ AExit
    \/ ListForms
    \/ ListSubmissions
    \/ ListDatasets
    \/ ListEntities
    \/ CreateEntity
    \/ UpdateEntity
    \/ DeleteEntity
    \/ GetEntityData

Spec == Init /\ [][Next]_vars

(***************************************************************************)
(* BulkSpec: the bulk operations, on a session that has been acquired      *)
(* (__aenter__ has returned with some token attached)                      *)
(***************************************************************************)
BulkInit ==
    /\ scope = "inside"
    /\ clients = <<"open">>
    /\ answer = Ok(PyDict([token |-> "t1"]))
    /\ headers = authenticate(SessionHeaders, answer).headers
    /\ sent = <<AuthRequest(SessionHeaders)>>
    /\ call = [NoCall EXCEPT !.op = "authenticate"]
    /\ ret = Return(NoneVal)
    /\ forms = NoneVal
    /\ tasks = <<>>

BulkNext ==
    \/ GetAllProjectSubmissionsStart
    \/ SubmissionTaskSettle
    \/ GetAllProjectSubmissionsFinish
    \/ CreateEntitiesStart
    \/ EntityTaskSettle
    \/ CreateEntitiesFinish

BulkSpec == BulkInit /\ [][BulkNext]_vars

(***************************************************************************)
(* Properties                                                              *)
(***************************************************************************)
Finished == ret.kind \in {"return", "raise"}

\* the 'value' arrays of the forms whose fetch succeeded, concatenated in launch order
SuccessfulValues(ts) ==
    Flatten([i \in DOMAIN ts |-> IF ts[i].st = "done" /\ ts[i].resp.kind = "ok" THEN ts[i].resp.json.v.value.v ELSE <<>>])

\* the entities the server created, in launch order
CreatedEntities(ts) ==
    Flatten([i \in DOMAIN ts |-> IF ts[i].st = "done" /\ ts[i].out.kind = "return" /\ ts[i].resp.kind = "ok"
                                  THEN <<ts[i].resp.json>> ELSE <<>>])

SameValue(a, b) == a.t = b.t /\ a.v = b.v

\* C1: getAllProjectSubmissions never raises, and returns the concatenation
\* of the 'value' arrays of the forms whose fetch succeeded, whatever subset
\* of the fetches failed.
C1_FailedFormsExcluded ==
    (call.op = "getAllProjectSubmissions" /\ Finished) =>
        /\ ret.kind = "return"
        /\ ret.val.t = "list"
        /\ ret.val.v = SuccessfulValues(tasks)

\* C2: createEntities returns one entry per pair whose creation succeeded
\* and nothing else: no empty mapping stands in for a pair whose POST failed.
C2_NoPlaceholderForFailedPair ==
    (call.op = "createEntities" /\ ret.kind = "return") =>
        /\ Len(ret.val.v) = Len(CreatedEntities(tasks))
        /\ \A i \in DOMAIN ret.val.v : Truthy(ret.val.v[i])

\* C3: createEntity with data lacking 'geometry', and updateEntity with both
\* label and data omitted, raise and issue no HTTP request.
C3_PreconditionBeforeNetwork ==
    /\ (call.op = "createEntity" /\ ~HasKey(call.data, "geometry")) =>
          (ret.kind = "raise" /\ ret.exc = "ValueError" /\ Len(sent) = 0)
    /\ (call.op = "updateEntity" /\ call.label.t = "none" /\ call.data.t = "none") =>
          (ret.kind = "raise" /\ ret.exc = "ValueError" /\ Len(sent) = 0)

C3_Witness ==
    /\ call.op = "createEntity"
    /\ call.data.t = "dict" /\ DOMAIN call.data.v = {"name"}
    /\ ret.kind = "raise"
    /\ Len(sent) = 0

\* C4: whenever newVersion is given (any integer), the PATCH carries
\* baseVersion = newVersion - 1 and not force=true; it carries force=true
\* only when newVersion is None.
C4_BaseVersionWheneverGiven ==
    (call.op = "updateEntity" /\ Len(sent) = 1) =>
        IF call.newVersion.t = "int"
        THEN sent[1].query[1] = "baseVersion" /\ sent[1].query[2] = call.newVersion.v - 1
        ELSE sent[1].query[1] = "force"

\* C5: a transport/server failure of a single-request operation is turned
\* into the operation's empty value and not raised: an empty sequence for
\* listForms, listDatasets and listEntities, an empty mapping for
\* listSubmissions, createEntity, updateEntity and getEntityData, false for
\* deleteEntity; authentication alone propagates it.
SafeEmpty(op) ==
    CASE op \in {"listForms", "listDatasets", "listEntities"} -> EmptyList
      [] op \in {"listSubmissions", "createEntity", "updateEntity", "getEntityData"} -> EmptyDict
      [] op = "deleteEntity" -> PyBool(FALSE)

C5_TransportFailureToEmptyValue ==
    /\ (call.op \notin {"none", "authenticate"} /\ answer.kind = "ClientError") =>
          (ret.kind = "return" /\ SameValue(ret.val, SafeEmpty(call.op)))
    /\ (call.op = "authenticate" /\ answer.kind = "ClientError") => ret.kind = "raise"

C5_Witness ==
    /\ call.op = "updateEntity"
    /\ answer.kind = "ClientError"
    /\ Len(sent) = 1
    /\ ret.kind = "return"

\* C6: while authenticating the only request issued is the POST to
\* 'sessions'; once the session is acquired its Authorization header is the
\* bearer token that POST returned, every request issued on it carries that
\* header, and no step taken inside the scope changes the session's headers.
CarriesSessionAuth(r) ==
    /\ "Authorization" \in DOMAIN r.headers
    /\ r.headers["Authorization"] = headers["Authorization"]

C6_State ==
    /\ scope = "authenticating" =>
          (Len(sent) = 1 /\ sent[1].method = "POST" /\ sent[1].url = <<"sessions">>
              /\ "Authorization" \notin DOMAIN sent[1].headers)
    /\ scope = "inside" =>
          /\ "Authorization" \in DOMAIN headers
          /\ headers["Authorization"][1] = "Bearer" /\ headers["Authorization"][2] \in Tokens
          /\ call.op = "authenticate" => headers["Authorization"][2] = answer.json.v.token
          /\ call.op # "authenticate" => \A i \in DOMAIN sent : CarriesSessionAuth(sent[i])

C6_AuthenticatedOnceThenReadOnly ==
    []C6_State /\ [][scope = "inside" => headers' = headers]_vars

C6_Witness ==
    /\ scope = "inside"
    /\ call.op = "listForms" /\ call.metadata
    /\ Len(clients) = 2
    /\ Len(sent) = 1
    /\ sent[1].headers["Authorization"] = <<"Bearer", "t2">>

\* C7: deleteEntity returns true exactly when the response body reports
\* success true; it returns false when the body reports success false, has
\* no 'success' field, or the DELETE fails with a transport error.
BodyReportsSuccess(json) ==
    /\ HasKey(json, "success")
    /\ json.v.success.t = "bool"
    /\ json.v.success.v

C7_DeleteReturnsSuccessFlag ==
    call.op = "deleteEntity" =>
        /\ answer.kind = "ClientError" => (ret.kind = "return" /\ SameValue(ret.val, PyBool(FALSE)))
        /\ answer.kind = "ok" => (ret.kind = "return" /\ SameValue(ret.val, PyBool(BodyReportsSuccess(answer.json))))

C7_Witness ==
    /\ call.op = "deleteEntity"
    /\ answer.kind = "ok"
    /\ HasKey(answer.json, "success") /\ ~answer.json.v.success.v
    /\ ret.kind = "return" /\ ~ret.val.v

\* C8: whatever the order in which the per-form requests complete, the list
\* getAllProjectSubmissions returns is the successful forms' 'value' arrays
\* concatenated in the launch order of the forms, each in the server's order.
C8_ResultInLaunchOrder ==
    (call.op = "getAllProjectSubmissions" /\ ret.kind = "return") =>
        (ret.val.t = "list" /\ ret.val.v = SuccessfulValues(tasks))

C8_Witness ==
    /\ call.op = "getAllProjectSubmissions"
    /\ call.items = <<"A", "B">>
    /\ ret.kind = "return"
    /\ tasks[1].doneAt = 2 /\ tasks[2].doneAt = 1
    /\ tasks[1].resp.kind = "ok" /\ tasks[2].resp.kind = "ok"
    /\ ret.val.v = << <<"A", 2>>, <<"A", 1>>, <<"B", 1>> >>

\* C9: a bulk operation launches one task per input item and returns (or
\* raises) only after every task has settled, failed siblings included.
BulkOps == {"getAllProjectSubmissions", "createEntities"}

C9_AllTasksSettleBeforeReturn ==
    call.op \in BulkOps =>
        /\ Len(tasks) = Len(call.items)
        /\ Finished => \A i \in DOMAIN tasks : tasks[i].st = "done"

C9_Witness ==
    /\ call.op = "getAllProjectSubmissions"
    /\ Len(call.items) = 2
    /\ ret.kind = "return"
    /\ tasks[1].out.kind = "raise" /\ tasks[1].doneAt = 1
    /\ tasks[2].out.kind = "return" /\ tasks[2].doneAt = 2

\* C10: once the scope has ended, by normal exit, by an exception in the
\* body or because authentication failed during acquisition, no client that
\* the acquisition created is still open.
C10_NoOpenClientAfterScope ==
    scope = "outside" => \A i \in DOMAIN clients : clients[i] = "closed"

====
